---- MODULE Spec2Model ----
(***************************************************************************)
(* Model of src/src/utils.ts (powerbi.extensibility.visual.utils of the    *)
(* Mekko chart visual): getClosestColumnIndex, calcValueDomain,            *)
(* transformDomain over a heap of prototype-linked objects, and            *)
(* setChosenColumnOpacity over a scene graph with d3 transitions.          *)
(***************************************************************************)
EXTENDS Integers, Sequences, FiniteSets, TLC

VARIABLES
    \* getClosestColumnIndex
    coordinate, columnsCenters, closestIndex,
    \* calcValueDomain
    data, is100pct, domain,
    \* transformDomain
    heap, dataView, min, max, result, result2, pc,
    \* setChosenColumnOpacity
    opacity, pending, selectedColumnIndex, lastColumnIndex, lastOp

closestVars == <<coordinate, columnsCenters, closestIndex>>
domainVars == <<data, is100pct, domain>>
transformVars == <<heap, dataView, min, max, result, result2, pc>>
opacityVars == <<opacity, pending, selectedColumnIndex, lastColumnIndex, lastOp>>
vars == <<closestVars, domainVars, transformVars, opacityVars>>

(***************************************************************************)
(* Bounds                                                                  *)
(***************************************************************************)
MaxGrid == 4
MaxCenters == 3

\* sequences over S of length 0..n
SeqsUpTo(S, n) == UNION {[1..k -> S] : k \in 0..n}

\* JavaScript values that are either a number or undefined
Num(n) == [num |-> TRUE, v |-> n]
Undefined == [num |-> FALSE, v |-> 0]

(***************************************************************************)
(* getClosestColumnIndex                                                   *)
(***************************************************************************)
\* Number.MAX_VALUE: larger than every distance of the model
NumberMaxValue == 2147483647

AbsNoSign(x) == x

Abs(x) == IF x < 0 THEN -x ELSE x

CloserOrEqual(currentDistance, distance) == currentDistance <= distance

Closer(currentDistance, distance) == currentDistance < distance

RECURSIVE ClosestLoop(_, _, _, _, _)
ClosestLoop(coord, centers, i, currentIndex, distance) ==
    IF i >= Len(centers) THEN currentIndex
    ELSE LET currentDistance == Abs(coord - centers[i + 1]) IN
         IF Closer(currentDistance, distance)
         THEN ClosestLoop(coord, centers, i + 1, i, currentDistance)
         ELSE ClosestLoop(coord, centers, i + 1, currentIndex, distance)

getClosestColumnIndex(coord, centers) ==
    ClosestLoop(coord, centers, 0, 0, NumberMaxValue)

Coordinates == {5 * k : k \in 0..MaxGrid}

ClosestInit ==
    /\ coordinate \in Coordinates
    /\ columnsCenters \in SeqsUpTo(Coordinates, MaxCenters)
    /\ closestIndex = Undefined

GetClosestColumnIndexCall ==
    /\ ~closestIndex.num
    /\ closestIndex' = Num(getClosestColumnIndex(coordinate, columnsCenters))
    /\ UNCHANGED <<coordinate, columnsCenters>>
    /\ UNCHANGED <<domainVars, transformVars, opacityVars>>

(***************************************************************************)
(* calcValueDomain.  Numbers are fixed-point integers counted in units of  *)
(* 0.00005, so that PctRoundingError (0.0001) is 2 units and 10 is 200000. *)
(***************************************************************************)
MaxSeries == 2
MaxPoints == 2
MaxPosition == 1
MaxValueAbsolute == 1

PctRoundingError == 2
DefaultNumberRangeMin == 0
DefaultNumberRangeMax == 200000

DefaultNumberRange == [min |-> Num(DefaultNumberRangeMin), max |-> Num(DefaultNumberRangeMax)]

\* d3.min(array, accessor) after the accessor was applied: the least of the
\* numbers in s, values that are not numbers are skipped, undefined if none
RECURSIVE D3Min(_)
D3Min(s) ==
    IF Len(s) = 0 THEN Undefined
    ELSE LET rest == D3Min(Tail(s)) IN
         IF ~Head(s).num THEN rest
         ELSE IF ~rest.num THEN Head(s)
         ELSE IF rest.v < Head(s).v THEN rest ELSE Head(s)

RECURSIVE D3Max(_)
D3Max(s) ==
    IF Len(s) = 0 THEN Undefined
    ELSE LET rest == D3Max(Tail(s)) IN
         IF ~Head(s).num THEN rest
         ELSE IF ~rest.num THEN Head(s)
         ELSE IF rest.v > Head(s).v THEN rest ELSE Head(s)

\* Math.round: the nearest integer of n / d (d > 0), a half rounds up
MathRound(n, d) == (2 * n + d) \div (2 * d)

\* Double.roundToPrecision(value, precision); NaN for a value that is no number
RoundToPrecision(value, precision) ==
    IF ~value.num THEN Undefined
    ELSE Num(precision * MathRound(value.v, precision))

DataPointTopAdded(dataPoint) == Num(dataPoint.position + dataPoint.valueAbsolute)

\* accessor of the inner d3.min
DataPointBottom(dataPoint) == Num(dataPoint.position - dataPoint.valueAbsolute)

\* accessor of the inner d3.max
DataPointTop(dataPoint) == Num(dataPoint.position)

calcValueDomain(series, pct) ==
    IF Len(series) = 0
    THEN [min |-> DefaultNumberRange.min, max |-> DefaultNumberRange.max]
    ELSE LET mn == D3Min([i \in 1..Len(series) |->
                       D3Min([j \in 1..Len(series[i]) |-> DataPointBottom(series[i][j])])])
             mx == D3Max([i \in 1..Len(series) |->
                       D3Max([j \in 1..Len(series[i]) |-> DataPointTop(series[i][j])])])
         IN IF pct
            THEN [min |-> RoundToPrecision(mn, PctRoundingError),
                  max |-> RoundToPrecision(mx, PctRoundingError)]
            ELSE [min |-> mn, max |-> mx]

DataPoints == [position : 0..MaxPosition, valueAbsolute : -1..MaxValueAbsolute]

DomainNotCalled == [min |-> Undefined, max |-> Undefined, called |-> FALSE]

DomainInit ==
    /\ data \in SeqsUpTo(SeqsUpTo(DataPoints, MaxPoints), MaxSeries)
    /\ is100pct \in BOOLEAN
    /\ domain = DomainNotCalled

CalcValueDomainCall ==
    /\ ~domain.called
    /\ LET r == calcValueDomain(data, is100pct) IN
       domain' = [min |-> r.min, max |-> r.max, called |-> TRUE]
    /\ UNCHANGED <<data, is100pct>>
    /\ UNCHANGED <<closestVars, transformVars, opacityVars>>

(***************************************************************************)
(* setChosenColumnOpacity.  The scene graph holds one rect per series and  *)
(* category; fill-opacity is counted in tenths.  selection.transition()    *)
(* schedules the style change, which d3 applies in a later timer turn;     *)
(* selection.style() applies it at once and leaves transitions running.    *)
(***************************************************************************)
NumSeries == 2
NumCategories == 3

DimmedOpacity == 4
DefaultOpacity == 10

Rects == [series : 1..NumSeries, categoryIndex : 0..(NumCategories - 1)]

DimFilterAllButLast(dataPoint, selected, last) ==
    /\ dataPoint.categoryIndex # selected
    /\ (~last.num \/ dataPoint.categoryIndex # last.v)

\* filter of the transition that dims; last is undefined or a number
DimFilter(dataPoint, selected, last) ==
    /\ dataPoint.categoryIndex # selected
    /\ (~last.num \/ dataPoint.categoryIndex = last.v)

\* filter of the immediate restore
RestoreFilter(dataPoint, selected) ==
    dataPoint.categoryIndex = selected

OpacityInit ==
    /\ opacity = [r \in Rects |-> DefaultOpacity]
    /\ pending = [r \in Rects |-> FALSE]
    /\ selectedColumnIndex = Undefined
    /\ lastColumnIndex = Undefined
    /\ lastOp = "init"

SetChosenColumnOpacity(selected, last) ==
    /\ pending' = [r \in Rects |-> pending[r] \/ DimFilter(r, selected, last)]
    /\ opacity' = [r \in Rects |->
                     IF RestoreFilter(r, selected) THEN DefaultOpacity ELSE opacity[r]]
    /\ selectedColumnIndex' = Num(selected)
    /\ lastColumnIndex' = last
    /\ lastOp' = "setChosenColumnOpacity"
    /\ UNCHANGED <<closestVars, domainVars, transformVars>>

SetChosenColumnOpacityCall ==
    \E selected \in 0..(NumCategories - 1) :
        \E last \in {Undefined} \cup {Num(n) : n \in 0..(NumCategories - 1)} :
            SetChosenColumnOpacity(selected, last)

\* a scheduled transition of rect r reaches its end value
TransitionEnd(r) ==
    /\ pending[r]
    /\ opacity' = [opacity EXCEPT ![r] = DimmedOpacity]
    /\ pending' = [pending EXCEPT ![r] = FALSE]
    /\ lastOp' = "transitionEnd"
    /\ UNCHANGED <<selectedColumnIndex, lastColumnIndex>>
    /\ UNCHANGED <<closestVars, domainVars, transformVars>>

TransitionEndSome == \E r \in Rects : TransitionEnd(r)

(***************************************************************************)
(* transformDomain.  Objects live in a heap; object o is heap[o], with the *)
(* object it inherits from (proto, 0 for none) and its own properties:     *)
(* refs (references to objects), arrs (arrays of primitives) and nums.     *)
(* A read walks the prototype chain, a write makes an own property.        *)
(***************************************************************************)
MaxLen == 3
MaxCategoryValue == 2
MaxColumns == 2

NoProperties == <<>>

NewObject(proto) ==
    [proto |-> proto, refs |-> NoProperties, arrs |-> NoProperties, nums |-> NoProperties]

HasOwn(h, o, f) ==
    f \in (DOMAIN h[o].refs) \cup (DOMAIN h[o].arrs) \cup (DOMAIN h[o].nums)

\* the object of o's prototype chain that holds property f, 0 if none does
RECURSIVE Owner(_, _, _)
Owner(h, o, f) ==
    IF o = 0 THEN 0
    ELSE IF HasOwn(h, o, f) THEN o
    ELSE Owner(h, h[o].proto, f)

\* o.f read as a reference; 0 is undefined
GetRef(h, o, f) ==
    LET w == Owner(h, o, f) IN
    IF w = 0 THEN 0
    ELSE IF f \in DOMAIN h[w].refs THEN h[w].refs[f] ELSE 0

HasArr(h, o, f) ==
    LET w == Owner(h, o, f) IN
    IF w = 0 THEN FALSE ELSE f \in DOMAIN h[w].arrs

GetArr(h, o, f) == h[Owner(h, o, f)].arrs[f]

GetNum(h, o, f) == h[Owner(h, o, f)].nums[f]

SetRef(h, o, f, v) == [h EXCEPT ![o].refs = (f :> v) @@ @]

SetArr(h, o, f, v) == [h EXCEPT ![o].arrs = (f :> v) @@ @]

InheritAlias(h, o) == [heap |-> h, id |-> o]

\* Prototype.inherit(o): a new object whose prototype is o
Inherit(h, o) == [heap |-> Append(h, NewObject(o)), id |-> Len(h) + 1]

\* property name of array index k
Idx(k) == <<"0", "1", "2", "3", "4">>[k + 1]

\* AxisHelper.isOrdinal(category.source.type)
isOrdinal(h, category) == GetNum(h, category, "source.type.ordinal") = 1

IsNumber(x) == x.num

\* a > b of JavaScript: false when a side is undefined
Greater(a, b) == a.num /\ b.num /\ a.v > b.v

NoCategoriesOrValues(h, dv) ==
    \/ GetRef(h, dv, "categories") = 0
    \/ GetRef(h, dv, "values") = 0
    \/ GetNum(h, GetRef(h, dv, "categories"), "length") = 0
    \/ GetNum(h, GetRef(h, dv, "values"), "length") = 0

AnyBoundUnset(mn, mx) == ~IsNumber(mn) \/ ~IsNumber(mx)

NoNumericBound(mn, mx) == ~IsNumber(mn) /\ ~IsNumber(mx)

ResolveMin(mn, categoryValues) ==
    IF IsNumber(mn) THEN mn
    ELSE IF Len(categoryValues) > 0 THEN Num(categoryValues[1]) ELSE Undefined

ResolveMax(mx, categoryValues) ==
    IF IsNumber(mx) THEN mx
    ELSE IF Len(categoryValues) > 0
         THEN Num(categoryValues[Len(categoryValues)]) ELSE Undefined

InRangeAboveMin(c, mn, mx) ==
    /\ mn.num /\ c > mn.v
    /\ mx.num /\ c <= mx.v

InRangeBelowMax(c, mn, mx) ==
    /\ mn.num /\ c >= mn.v
    /\ mx.num /\ c < mx.v

\* categoryValues[t] >= min && categoryValues[t] <= max
InRange(c, mn, mx) ==
    /\ mn.num /\ c >= mn.v
    /\ mx.num /\ c <= mx.v

ColumnValueFirst(h, dv, k, t) ==
    GetArr(h, GetRef(h, GetRef(h, dv, "values"), Idx(k)), "values")[1]

\* dataView.values[k].values[t]
ColumnValue(h, dv, k, t) ==
    GetArr(h, GetRef(h, GetRef(h, dv, "values"), Idx(k)), "values")[t + 1]

\* the loop over the category values, acc holds the three new arrays
RECURSIVE FilterLoop(_, _, _, _, _, _, _, _)
FilterLoop(h, dv, categoryValues, categoryObjects, mn, mx, t, acc) ==
    IF t >= Len(categoryValues) THEN acc
    ELSE IF InRange(categoryValues[t + 1], mn, mx)
    THEN FilterLoop(h, dv, categoryValues, categoryObjects, mn, mx, t + 1,
            [newcategoryValues |-> Append(acc.newcategoryValues, categoryValues[t + 1]),
             newObjects |-> Append(acc.newObjects, categoryObjects[t + 1]),
             newValues |-> [k \in DOMAIN acc.newValues |->
                              Append(acc.newValues[k], ColumnValue(h, dv, k - 1, t))]])
    ELSE FilterLoop(h, dv, categoryValues, categoryObjects, mn, mx, t + 1, acc)

\* the loop that derives every value column and gives it its new values
RECURSIVE MeasureLoop(_, _, _, _, _)
MeasureLoop(h, dv, resultDataViewValues, newValues, t) ==
    IF t >= GetNum(h, GetRef(h, dv, "values"), "length") THEN h
    ELSE LET a == Inherit(h, GetRef(h, resultDataViewValues, Idx(t)))
             h1 == SetRef(a.heap, resultDataViewValues, Idx(t), a.id)
             h2 == SetArr(h1, a.id, "values", newValues[t + 1])
         IN MeasureLoop(h2, dv, resultDataViewValues, newValues, t + 1)

DeriveResult(h, dv, acc) ==
    LET a1 == Inherit(h, dv)
        resultDataView == a1.id
        a2 == Inherit(a1.heap, GetRef(a1.heap, resultDataView, "values"))
        resultDataViewValues == a2.id
        h2 == SetRef(a2.heap, resultDataView, "values", resultDataViewValues)
        a3 == Inherit(h2, GetRef(h2, dv, "categories"))
        resultDataViewCategories == a3.id
        h3 == SetRef(a3.heap, resultDataView, "categories", resultDataViewCategories)
        a4 == Inherit(h3, GetRef(h3, resultDataViewCategories, "0"))
        resultDataViewCategories0 == a4.id
        h4 == SetRef(a4.heap, GetRef(a4.heap, resultDataView, "categories"), "0",
                     resultDataViewCategories0)
        h5 == SetArr(h4, resultDataViewCategories0, "values", acc.newcategoryValues)
        h6 == IF HasArr(h5, resultDataViewCategories0, "objects")
              THEN SetArr(h5, resultDataViewCategories0, "objects", acc.newObjects)
              ELSE h5
    IN [heap |-> MeasureLoop(h6, dv, resultDataViewValues, acc.newValues, 0),
        ret |-> [kind |-> "dataView", ref |-> resultDataView]]

\* what a call returns (kind "dataView" or "undefined") or throws ("TypeError"),
\* with the heap it leaves; d is a returned value of this shape
transformDomain(h, d, mn, mx) ==
    IF d.kind # "dataView" THEN [heap |-> h, ret |-> [kind |-> "TypeError", ref |-> 0]]
    ELSE LET dv == d.ref IN
    IF NoCategoriesOrValues(h, dv) THEN [heap |-> h, ret |-> d]
    ELSE IF NoNumericBound(mn, mx) THEN [heap |-> h, ret |-> d]
    ELSE LET category == GetRef(h, GetRef(h, dv, "categories"), "0") IN
    IF isOrdinal(h, category) THEN [heap |-> h, ret |-> [kind |-> "undefined", ref |-> 0]]
    ELSE IF ~HasArr(h, category, "values") \/ ~HasArr(h, category, "objects")
    THEN [heap |-> h, ret |-> d]
    ELSE LET categoryValues == GetArr(h, category, "values")
             categoryObjects == GetArr(h, category, "objects")
             rmin == ResolveMin(mn, categoryValues)
             rmax == ResolveMax(mx, categoryValues)
         IN
    IF Greater(rmin, rmax) THEN [heap |-> h, ret |-> d]
    ELSE DeriveResult(h, dv,
            FilterLoop(h, dv, categoryValues, categoryObjects, rmin, rmax, 0,
                [newcategoryValues |-> <<>>,
                 newObjects |-> <<>>,
                 newValues |-> [k \in 1..GetNum(h, GetRef(h, dv, "values"), "length") |-> <<>>]]))

(***************************************************************************)
(* Input data views.  Heap layout of an input: 1 the data view, 2 its      *)
(* categories array, 3 the category column, 4 the values collection,       *)
(* 5.. the value columns.  Every value column is as long as the category   *)
(* column; cell t of column k holds 100 * (k + 1) + t, the metadata object *)
(* of category t is 1000 + t.                                              *)
(***************************************************************************)
Defects == {"none", "noCategories", "emptyCategories", "noValues", "emptyValues"}

Shapes ==
    [defect : {"none"}, ordinal : BOOLEAN, hasCategoryValues : BOOLEAN,
     hasObjects : BOOLEAN, numColumns : 1..MaxColumns,
     c : SeqsUpTo(0..MaxCategoryValue, MaxLen)]
    \cup
    [defect : Defects \ {"none"}, ordinal : BOOLEAN, hasCategoryValues : {TRUE},
     hasObjects : {TRUE}, numColumns : {1}, c : {<<>>}]

Optional(present, f) == IF present THEN f ELSE NoProperties

MakeHeap(s) ==
    LET numCategories == IF s.defect = "emptyCategories" THEN 0 ELSE 1
        numColumns == IF s.defect = "emptyValues" THEN 0 ELSE s.numColumns
        n == Len(s.c)
    IN <<[proto |-> 0,
          refs |-> Optional(s.defect # "noCategories", "categories" :> 2)
                   @@ Optional(s.defect # "noValues", "values" :> 4),
          arrs |-> NoProperties, nums |-> NoProperties],
         [proto |-> 0,
          refs |-> Optional(numCategories = 1, "0" :> 3),
          arrs |-> NoProperties, nums |-> "length" :> numCategories],
         [proto |-> 0, refs |-> NoProperties,
          arrs |-> Optional(s.hasCategoryValues, "values" :> s.c)
                   @@ Optional(s.hasObjects, "objects" :> [t \in 1..n |-> 1000 + (t - 1)]),
          nums |-> "source.type.ordinal" :> (IF s.ordinal THEN 1 ELSE 0)],
         [proto |-> 0,
          refs |-> [f \in {Idx(k) : k \in 0..(numColumns - 1)} |->
                      5 + (CHOOSE k \in 0..(numColumns - 1) : Idx(k) = f)],
          arrs |-> NoProperties, nums |-> "length" :> numColumns]>>
       \o [k \in 1..s.numColumns |->
             [proto |-> 0, refs |-> NoProperties,
              arrs |-> "values" :> [t \in 1..n |-> 100 * k + (t - 1)],
              nums |-> NoProperties]]

Bounds == {Undefined} \cup {Num(n) : n \in 0..MaxCategoryValue}

NoResult == [kind |-> "notCalled", ref |-> 0]

TransformInit ==
    /\ \E s \in Shapes : heap = MakeHeap(s)
    /\ dataView = [kind |-> "dataView", ref |-> 1]
    /\ min \in Bounds
    /\ max \in Bounds
    /\ result = NoResult
    /\ result2 = NoResult
    /\ pc = "start"

TransformDomainCall ==
    /\ pc = "start"
    /\ LET r == transformDomain(heap, dataView, min, max) IN
       /\ heap' = r.heap
       /\ result' = r.ret
    /\ pc' = "called"
    /\ UNCHANGED <<dataView, min, max, result2>>
    /\ UNCHANGED <<closestVars, domainVars, opacityVars>>

\* transformDomain applied to its own result with the same bounds
TransformDomainAgain ==
    /\ pc = "called"
    /\ LET r == transformDomain(heap, result, min, max) IN
       /\ heap' = r.heap
       /\ result2' = r.ret
    /\ pc' = "reapplied"
    /\ UNCHANGED <<dataView, min, max, result>>
    /\ UNCHANGED <<closestVars, domainVars, opacityVars>>

(***************************************************************************)
(* Specifications, one per function; the other functions' state rests.     *)
(***************************************************************************)
ClosestIdle ==
    coordinate = 0 /\ columnsCenters = <<>> /\ closestIndex = Undefined

DomainIdle ==
    data = <<>> /\ is100pct = FALSE /\ domain = DomainNotCalled

TransformIdle ==
    /\ heap = <<>> /\ dataView = NoResult /\ min = Undefined /\ max = Undefined
    /\ result = NoResult /\ result2 = NoResult /\ pc = "idle"

ClosestSpecInit == ClosestInit /\ DomainIdle /\ TransformIdle /\ OpacityInit

ClosestNext == GetClosestColumnIndexCall

SpecClosest == ClosestSpecInit /\ [][ClosestNext]_vars

DomainSpecInit == DomainInit /\ ClosestIdle /\ TransformIdle /\ OpacityInit

DomainNext == CalcValueDomainCall

SpecDomain == DomainSpecInit /\ [][DomainNext]_vars

TransformSpecInit == TransformInit /\ ClosestIdle /\ DomainIdle /\ OpacityInit

TransformNext == TransformDomainCall \/ TransformDomainAgain

SpecTransform == TransformSpecInit /\ [][TransformNext]_vars

OpacitySpecInit == OpacityInit /\ ClosestIdle /\ DomainIdle /\ TransformIdle

OpacityNext == SetChosenColumnOpacityCall \/ TransitionEndSome

SpecOpacity == OpacitySpecInit /\ [][OpacityNext]_vars

(***************************************************************************)
(* Properties of getClosestColumnIndex                                     *)
(***************************************************************************)
Dist(a, b) == IF a >= b THEN a - b ELSE b - a

\* C3: the index returned is the lowest index whose center is at the least
\* absolute distance from the coordinate, and 0 for no centers at all
C3_LowestClosestIndex ==
    closestIndex.num =>
        IF Len(columnsCenters) = 0 THEN closestIndex.v = 0
        ELSE /\ closestIndex.v \in 0..(Len(columnsCenters) - 1)
             /\ \A j \in 1..Len(columnsCenters) :
                   /\ Dist(coordinate, columnsCenters[closestIndex.v + 1])
                         <= Dist(coordinate, columnsCenters[j])
                   /\ j < closestIndex.v + 1 =>
                         Dist(coordinate, columnsCenters[j])
                            > Dist(coordinate, columnsCenters[closestIndex.v + 1])

\* a tie between two later centers, one of them above the coordinate
C3_Witness ==
    /\ closestIndex.num
    /\ closestIndex.v = 1
    /\ Len(columnsCenters) = 3
    /\ columnsCenters[1] > coordinate
    /\ Dist(coordinate, columnsCenters[2]) = Dist(coordinate, columnsCenters[3])
    /\ columnsCenters[2] # columnsCenters[3]

\* C4 as stated: getClosestColumnIndex(15, [0, 10, 20]) returns 2
C4_ReturnsTwo ==
    (closestIndex.num /\ coordinate = 15 /\ columnsCenters = <<0, 10, 20>>)
        => closestIndex.v = 2

\* C4 amended: getClosestColumnIndex(15, [0, 10, 20]) returns 1, the earlier
\* of the two centers at distance 5
C4_ReturnsOne ==
    (closestIndex.num /\ coordinate = 15 /\ columnsCenters = <<0, 10, 20>>)
        => closestIndex.v = 1

C4_Witness ==
    closestIndex.num /\ coordinate = 15 /\ columnsCenters = <<0, 10, 20>>

(***************************************************************************)
(* Properties of calcValueDomain                                           *)
(***************************************************************************)
AllDataPoints == UNION {{data[i][j] : j \in DOMAIN data[i]} : i \in DOMAIN data}

LeastBottom ==
    LET S == {p.position - p.valueAbsolute : p \in AllDataPoints} IN
    CHOOSE m \in S : \A x \in S : m <= x

GreatestPosition ==
    LET S == {p.position : p \in AllDataPoints} IN
    CHOOSE m \in S : \A x \in S : m >= x

\* r is the multiple of PctRoundingError nearest to x, a half rounded up
IsRounded(r, x) ==
    /\ r % PctRoundingError = 0
    /\ 2 * (r - x) <= PctRoundingError
    /\ 2 * (x - r) < PctRoundingError

\* C5 as stated: {min: 0, max: 10} for no series; for every non-empty series
\* collection and either is100pct, min <= max with min the least
\* position - valueAbsolute and max the greatest position
C5_DomainAsStated ==
    domain.called =>
        IF Len(data) = 0
        THEN domain.min = Num(DefaultNumberRangeMin) /\ domain.max = Num(DefaultNumberRangeMax)
        ELSE /\ domain.min.num /\ domain.max.num
             /\ AllDataPoints # {}
             /\ domain.min.v <= domain.max.v
             /\ domain.min.v = LeastBottom
             /\ domain.max.v = GreatestPosition

\* C5 amended: {min: 0, max: 10} for no series; for a collection with at least
\* one data point, min is the least position - valueAbsolute and max the
\* greatest position, each rounded to the nearest multiple of 0.0001 when
\* is100pct is set, and min <= max whenever no valueAbsolute is negative; for
\* a non-empty collection without any data point neither bound is a number
C5_DomainAmended ==
    domain.called =>
        IF Len(data) = 0
        THEN domain.min = Num(DefaultNumberRangeMin) /\ domain.max = Num(DefaultNumberRangeMax)
        ELSE IF AllDataPoints = {}
        THEN ~domain.min.num /\ ~domain.max.num
        ELSE /\ domain.min.num /\ domain.max.num
             /\ IF is100pct
                THEN /\ IsRounded(domain.min.v, LeastBottom)
                     /\ IsRounded(domain.max.v, GreatestPosition)
                ELSE /\ domain.min.v = LeastBottom
                     /\ domain.max.v = GreatestPosition
             /\ (\A p \in AllDataPoints : p.valueAbsolute >= 0)
                    => domain.min.v <= domain.max.v

\* two series, a positive valueAbsolute, and a bound that rounding moved
C5_Witness ==
    /\ domain.called
    /\ is100pct
    /\ Len(data) = 2
    /\ AllDataPoints # {}
    /\ \A p \in AllDataPoints : p.valueAbsolute >= 0
    /\ \E p \in AllDataPoints : p.valueAbsolute > 0
    /\ domain.min.num
    /\ domain.min.v # LeastBottom

(***************************************************************************)
(* Properties of setChosenColumnOpacity                                    *)
(***************************************************************************)
IsCallStep == lastOp' = "setChosenColumnOpacity" /\ opacityVars' # opacityVars

\* C9 as stated: a call starts the dimming of every rect whose category index
\* is neither the selected one nor (when defined) the last one, and sets the
\* rects of the selected index to full opacity
C9_DimsAllButSelectedAndLast ==
    [][IsCallStep =>
        \A r \in Rects :
            /\ (/\ Num(r.categoryIndex) # selectedColumnIndex'
                /\ (lastColumnIndex'.num => r.categoryIndex # lastColumnIndex'.v))
                   => pending'[r]
            /\ Num(r.categoryIndex) = selectedColumnIndex'
                   => opacity'[r] = DefaultOpacity]_vars

\* C9 amended: a call starts the dimming to 0.4 of exactly the rects whose
\* category index differs from the selected one and, when lastIndex is
\* defined, equals lastIndex (every unselected rect when it is undefined);
\* it sets the rects of the selected index to 1.0 at once and leaves the
\* opacity of every other rect as it was
C9_DimsLastOnly ==
    [][IsCallStep =>
        \A r \in Rects :
            /\ pending'[r] <=>
                  \/ pending[r]
                  \/ /\ Num(r.categoryIndex) # selectedColumnIndex'
                     /\ IF lastColumnIndex'.num
                        THEN r.categoryIndex = lastColumnIndex'.v
                        ELSE TRUE
            /\ opacity'[r] = IF Num(r.categoryIndex) = selectedColumnIndex'
                             THEN DefaultOpacity ELSE opacity[r]]_vars

\* after a call with a last index that differs from the selected one: the
\* rects of the last index are being dimmed, and a rect of a third index is
\* neither dimmed nor being dimmed
C9_Witness ==
    /\ lastOp = "setChosenColumnOpacity"
    /\ lastColumnIndex.num
    /\ lastColumnIndex # selectedColumnIndex
    /\ \A r \in Rects : r.categoryIndex = lastColumnIndex.v => pending[r]
    /\ \E r \in Rects :
          /\ Num(r.categoryIndex) \notin {selectedColumnIndex, lastColumnIndex}
          /\ ~pending[r]
          /\ opacity[r] = DefaultOpacity

\* C10: once no transition is pending, every rect of the index selected by
\* the most recent call has full opacity
C10_SelectedEndsAtFullOpacity ==
    (selectedColumnIndex.num /\ \A r \in Rects : ~pending[r]) =>
        \A r \in Rects :
            r.categoryIndex = selectedColumnIndex.v => opacity[r] = DefaultOpacity

(***************************************************************************)
(* Properties of transformDomain                                           *)
(***************************************************************************)
Called == pc \in {"called", "reapplied"}

\* the first category column of data view d, 0 if there is none
CategoryOf(d) == GetRef(heap, GetRef(heap, d, "categories"), "0")

NumColumnsOf(d) ==
    IF GetRef(heap, d, "values") = 0 THEN 0
    ELSE GetNum(heap, GetRef(heap, d, "values"), "length")

ColumnOf(d, k) == GetRef(heap, GetRef(heap, d, "values"), Idx(k))

HasArrays(d) ==
    /\ CategoryOf(d) # 0
    /\ HasArr(heap, CategoryOf(d), "values")
    /\ HasArr(heap, CategoryOf(d), "objects")

CategoryValuesOf(d) == GetArr(heap, CategoryOf(d), "values")

CategoryObjectsOf(d) == GetArr(heap, CategoryOf(d), "objects")

ColumnValuesOf(d, k) == GetArr(heap, ColumnOf(d, k), "values")

InputIsOrdinal ==
    /\ CategoryOf(dataView.ref) # 0
    /\ GetNum(heap, CategoryOf(dataView.ref), "source.type.ordinal") = 1

\* the bounds after a missing one was taken from the first / last category
Lo == IF min.num THEN min.v ELSE CategoryValuesOf(dataView.ref)[1]

Hi == IF max.num THEN max.v
      ELSE CategoryValuesOf(dataView.ref)[Len(CategoryValuesOf(dataView.ref))]

PassesEarlyExits ==
    /\ CategoryOf(dataView.ref) # 0
    /\ NumColumnsOf(dataView.ref) > 0
    /\ ~InputIsOrdinal
    /\ HasArrays(dataView.ref)
    /\ min.num \/ max.num
    /\ (~min.num \/ ~max.num) => Len(CategoryValuesOf(dataView.ref)) > 0
    /\ Lo <= Hi

Between(x) == Lo <= x /\ x <= Hi

\* C1: past the early exits, the category values returned are exactly the
\* input category values within [min, max], both ends included, in their
\* input order
C1_StableInclusiveFilter ==
    (Called /\ PassesEarlyExits) =>
        /\ result.kind = "dataView"
        /\ CategoryValuesOf(result.ref)
              = SelectSeq(CategoryValuesOf(dataView.ref), Between)

\* a filtered call that drops the middle one of three categories and keeps
\* one equal to each bound
C1_Witness ==
    /\ pc = "called"
    /\ PassesEarlyExits
    /\ min.num /\ max.num
    /\ Len(CategoryValuesOf(dataView.ref)) = 3
    /\ CategoryValuesOf(dataView.ref)[1] = Hi
    /\ ~Between(CategoryValuesOf(dataView.ref)[2])
    /\ CategoryValuesOf(dataView.ref)[3] = Lo
    /\ Lo < Hi
    /\ Len(CategoryValuesOf(result.ref)) = 2

\* C2 as stated: for an ordinal first category column the result is the
\* undefined sentinel whatever the bounds
C2_OrdinalAlwaysSentinel ==
    (Called /\ InputIsOrdinal) => result.kind = "undefined"

\* C2 amended: for a data view with a non-empty values collection and an
\* ordinal first category column the result is the undefined sentinel
\* whenever at least one bound is numeric; with no numeric bound, or with an
\* absent or empty values collection, it is the original data view
C2_OrdinalSentinelWithBound ==
    (Called /\ InputIsOrdinal) =>
        IF NumColumnsOf(dataView.ref) > 0 /\ (min.num \/ max.num)
        THEN result.kind = "undefined"
        ELSE result = dataView

\* an ordinal data view called with only one numeric bound
C2_Witness ==
    /\ pc = "called"
    /\ InputIsOrdinal
    /\ NumColumnsOf(dataView.ref) > 0
    /\ min.num /\ ~max.num
    /\ result.kind = "undefined"

\* what a caller reads from a returned data view
Observed(d) ==
    [categoryValues |-> CategoryValuesOf(d),
     objects |-> CategoryObjectsOf(d),
     values |-> [k \in 0..(NumColumnsOf(d) - 1) |-> ColumnValuesOf(d, k)]]

SameOutput(r1, r2) ==
    /\ r1.kind = r2.kind
    /\ \/ r1.ref = r2.ref
       \/ /\ HasArrays(r1.ref) /\ HasArrays(r2.ref)
          /\ Observed(r1.ref) = Observed(r2.ref)

\* C6 as stated: for every data view and bounds, applying transformDomain to
\* its own output yields the same output
C6_IdempotentAlways ==
    pc = "reapplied" => SameOutput(result, result2)

\* C6 amended: whenever transformDomain returns a data view (not the
\* undefined sentinel of an ordinal category), applying it to that output
\* with the same bounds yields the same category values, objects and value
\* columns
C6_IdempotentOnDataViews ==
    (pc = "reapplied" /\ result.kind = "dataView") => SameOutput(result, result2)

\* unsorted input, min taken from the first category of the filtered output
C6_Witness ==
    /\ pc = "reapplied"
    /\ result.kind = "dataView"
    /\ result.ref # dataView.ref
    /\ result2.ref # result.ref
    /\ ~min.num
    /\ Len(CategoryValuesOf(dataView.ref)) = 3
    /\ CategoryValuesOf(dataView.ref)[2] < CategoryValuesOf(dataView.ref)[1]
    /\ Len(CategoryValuesOf(result.ref)) = 2
    /\ Len(CategoryValuesOf(result2.ref)) = 2

StrictlyIncreasing(f) == \A i, j \in DOMAIN f : i < j => f[i] < f[j]

\* data view d holds, column by column, the entries of the input at the
\* indices f[1] < f[2] < ...
AlignedWithInput(d) ==
    LET n == Len(CategoryValuesOf(d))
        m == Len(CategoryValuesOf(dataView.ref))
    IN /\ Len(CategoryObjectsOf(d)) = n
       /\ NumColumnsOf(d) = NumColumnsOf(dataView.ref)
       /\ \A k \in 0..(NumColumnsOf(d) - 1) : Len(ColumnValuesOf(d, k)) = n
       /\ \E f \in [1..n -> 1..m] :
             /\ StrictlyIncreasing(f)
             /\ \A j \in 1..n :
                   /\ CategoryValuesOf(d)[j] = CategoryValuesOf(dataView.ref)[f[j]]
                   /\ CategoryObjectsOf(d)[j] = CategoryObjectsOf(dataView.ref)[f[j]]
                   /\ \A k \in 0..(NumColumnsOf(d) - 1) :
                         ColumnValuesOf(d, k)[j] = ColumnValuesOf(dataView.ref, k)[f[j]]

\* C7: in every data view returned, every value column and the category
\* objects are as long as the category values, and index j of every column
\* holds the entry of the input index that category j came from
C7_ColumnsAligned ==
    \A r \in {result, result2} :
        (r.kind = "dataView" /\ HasArrays(r.ref)) => AlignedWithInput(r.ref)

\* two value columns filtered down to the last two of three categories
C7_Witness ==
    /\ pc = "called"
    /\ result.kind = "dataView"
    /\ result.ref # dataView.ref
    /\ NumColumnsOf(result.ref) = 2
    /\ Len(CategoryValuesOf(dataView.ref)) = 3
    /\ Len(ColumnValuesOf(result.ref, 1)) = 2
    /\ ColumnValuesOf(result.ref, 1)[1] = ColumnValuesOf(dataView.ref, 1)[2]

\* C8: no call changes an object that existed before it: the input data
\* view, its categories array, category column, values collection and
\* value columns keep their own properties and contents
C8_InputNotMutated ==
    [][/\ Len(heap') >= Len(heap)
       /\ \A o \in 1..Len(heap) : heap'[o] = heap[o]]_vars

\* a call that derived a filtered data view with fewer categories
C8_Witness ==
    /\ pc = "called"
    /\ result.kind = "dataView"
    /\ result.ref # dataView.ref
    /\ heap[result.ref].proto = dataView.ref
    /\ Len(CategoryValuesOf(result.ref)) < Len(CategoryValuesOf(dataView.ref))

====
